---- MODULE Spec2Model ----
(***************************************************************************)
(* Model of nb_dns_updater.py: the Netbox webhook which keeps A/AAAA and   *)
(* PTR records in step with the dns_name of ipam.ipaddress objects.        *)
(*                                                                         *)
(* A DNS name is the sequence of its labels, leftmost first; the root is   *)
(* the empty sequence.  A piece of text (the dns_name of a request, the    *)
(* text of an address, the name column of an update) is a record, so that  *)
(* parsing and formatting are conversions between different values.        *)
(***************************************************************************)
EXTENDS Integers, Sequences, FiniteSets, TLC

\* ------------------------------------------------------------------ bounds
\* live DNS holds at most this many records when a request arrives
MaxRecords == 2
\* at most this many zone updaters fail during one commit
MaxFailures == 1
\* longest name (in labels) drawn for the zone lookup on its own
MaxLabels == 3
\* most calls made on a batch built call by call
MaxOps == 3

\* ------------------------------------------------------- program constants
\* DNSWebHook.__init__: ttl=3600
ttl == 3600
IP6_ARPA == <<"ip6", "arpa">>
\* dns.reversename.ipv4_reverse_domain
IN_ADDR_ARPA == <<"in-addr", "arpa">>

\* Python's None (as the value of dns_name) and the None returned by _find
None == [none |-> TRUE]
NotFound == <<"None">>

\* --------------------------------------------------------------- dns.name
Root == <<>>

\* text of a name: its labels and whether it ends with a dot
NameText(labels, dot) == [labels |-> labels, dot |-> dot]
EmptyStr == NameText(<<>>, FALSE)

\* Python truth of the dns_name value: None and "" are false
Truthy(name) == name # None /\ name # EmptyStr

\* dns.name.from_text raises EmptyLabel on text such as "h..example.com"
NameParses(text) == \A i \in 1..Len(text.labels) : text.labels[i] # ""

\* dns.name.from_text: the absolute name; the root origin is appended when
\* the text has no trailing dot, so both spellings give the same name
from_text(text) == text.labels

\* Name.to_text() of an absolute name: always with the trailing dot
to_text(dnsname) == NameText(dnsname, TRUE)

\* Name.parent() exists for every name but the root (NoParent)
HasParent(dnsname) == dnsname # Root
parent(dnsname) == Tail(dnsname)

\* is_subdomain as it would be if it held of the name itself alone
is_subdomain_equal(dnsname, other) == dnsname = other

\* Name.is_subdomain(other): other is a suffix of the name
is_subdomain(dnsname, other) ==
    /\ Len(other) <= Len(dnsname)
    /\ SubSeq(dnsname, Len(dnsname) - Len(other) + 1, Len(dnsname)) = other

\* dnsname.relativize(zonename).to_text(): the labels left of the zone,
\* without trailing dot; "@" when the name is the zone itself
relativize_to_text(dnsname, zonename) ==
    LET rel == SubSeq(dnsname, 1, Len(dnsname) - Len(zonename))
    IN  IF rel = <<>> THEN NameText(<<"@">>, FALSE) ELSE NameText(rel, FALSE)

\* what the DNS server does with the name column of an update of a zone
derelativize(text, zonename) ==
    IF text.labels = <<"@">> THEN zonename ELSE text.labels \o zonename

\* -------------------------------------------------------------- addresses
\* text of an address: family, digits (octets for IPv4, nibbles for IPv6)
\* and spelling; family "bad" is text that is no address at all
AddrText(fam, digits, form) == [fam |-> fam, digits |-> digits, form |-> form]
AddrParses(address) == address.fam # "bad"

RECURSIVE reversed(_)
reversed(s) == IF s = <<>> THEN <<>> ELSE reversed(Tail(s)) \o <<Head(s)>>

\* dns.reversename.from_address: reversed digits under in-addr.arpa. or
\* ip6.arpa.; the spelling of the text plays no part
from_address(address) ==
    reversed(address.digits) \o
        (IF address.fam = "6" THEN IP6_ARPA ELSE IN_ADDR_ARPA)

\* the address a text denotes (the rdata a server stores): family and digits
inet_aton(address) == <<address.fam>> \o address.digits

\* rdata.address of an A/AAAA answer: the canonical spelling of the value
inet_ntoa(value) == AddrText(Head(value), Tail(value), "canon")

\* ------------------------------------------------------------------ state
VARIABLES
    zones,      \* UpdateMapper.zones: zone name -> kind of its updater
    api_key,    \* DNSWebHook.api_key is set (TRUE) or None (FALSE)
    dns,        \* the records the DNS servers hold
    pc,         \* "idle", "served" (a webhook request), "ran" (the command
                \* line of __main__), "found" (a zone lookup on its own),
                \* "batch" and "committed" (a batch built call by call)
    request,    \* the request, command line or name being handled
    queries,    \* the queries of the call, in order, with their route
    calls,      \* the calls of mapper.add / mapper.delete, in order
    ctx,        \* the batch of the call: <<[zone, updates]>> in insertion order
    invoked,    \* the zone updater invocations of commit, in order
    result,     \* how the call ended: "none", "returned", or "raised:" and
                \* the step that raised (parse, query, commit)
    status,     \* the HTTP status handed to start_response, "500" when the
                \* application raised, "none" outside HTTP
    before,     \* the records the DNS servers held when the call began
    found       \* what a zone lookup on its own returned

vars == <<zones, api_key, dns, pc, request, queries, calls, ctx, invoked,
          result, status, before, found>>

\* a record of the live DNS: owner name, type and rdata (an address value
\* for A/AAAA, a name for PTR)
RR(name, rrtype, rdata) == [name |-> name, rrtype |-> rrtype, rdata |-> rdata]

\* ----------------------------------------------------------- UpdateMapper
\* UpdateMapper.begin
begin == <<>>

\* _find as it would be if the walk began at the parent of the name
RECURSIVE _find_from_parent(_)
_find_from_parent(dnsname) ==
    IF ~HasParent(dnsname) THEN NotFound
    ELSE IF parent(dnsname) \in DOMAIN zones THEN parent(dnsname)
    ELSE _find_from_parent(parent(dnsname))

\* UpdateMapper._find: the name itself if registered, else its parent's zone
RECURSIVE _find(_)
_find(dnsname) ==
    IF dnsname \in DOMAIN zones THEN dnsname
    ELSE IF HasParent(dnsname) THEN _find(parent(dnsname))
    ELSE NotFound

\* position of a zone key in the batch, 0 when absent
IndexOf(c, zonename) ==
    IF \E i \in 1..Len(c) : c[i].zone = zonename
    THEN CHOOSE i \in 1..Len(c) : c[i].zone = zonename
    ELSE 0

\* the tuple appended by _record as it would be if the full name were kept
Relative_full_name(call, zonename) ==
    [call EXCEPT !.dnsname = to_text(call.dnsname)]

\* the tuple (action, (relative name, *args)) appended by _record
Relative(call, zonename) ==
    [call EXCEPT !.dnsname = relativize_to_text(call.dnsname, zonename)]

\* _record as it would be if the tuple were put at the head of the list of
\* its zone
_record_prepending(c, call) ==
    LET zonename == _find(call.dnsname) IN
    IF zonename = NotFound THEN c
    ELSE LET c1 == IF IndexOf(c, zonename) = 0
                   THEN Append(c, [zone |-> zonename, updates |-> <<>>])
                   ELSE c
             i  == IndexOf(c1, zonename)
         IN  [c1 EXCEPT ![i].updates = <<Relative(call, zonename)>> \o @]

\* UpdateMapper._record
_record(c, call) ==
    LET zonename == _find(call.dnsname) IN
    IF zonename = NotFound THEN c
    ELSE LET c1 == IF IndexOf(c, zonename) = 0
                   THEN Append(c, [zone |-> zonename, updates |-> <<>>])
                   ELSE c
             i  == IndexOf(c1, zonename)
         IN  [c1 EXCEPT ![i].updates = Append(@, Relative(call, zonename))]

\* UpdateMapper.add / replace / delete, as the call they pass to _record;
\* data is None for a delete of all records of the type
add(dnsname, t, rrtype, data) ==
    [action |-> "add", dnsname |-> dnsname, ttl |-> t, rrtype |-> rrtype,
     data |-> data]
replace(dnsname, t, rrtype, data) ==
    [action |-> "replace", dnsname |-> dnsname, ttl |-> t, rrtype |-> rrtype,
     data |-> data]
\* delete as it would be if the data were left to its default, None
delete_all_of_type(dnsname, rrtype, data) ==
    [action |-> "delete", dnsname |-> dnsname, rrtype |-> rrtype,
     data |-> None]
delete(dnsname, rrtype, data) ==
    [action |-> "delete", dnsname |-> dnsname, rrtype |-> rrtype,
     data |-> data]

\* the batch built by a sequence of add/delete calls on a fresh batch
RECURSIVE RecordAll(_, _)
RecordAll(c, cs) ==
    IF cs = <<>> THEN c ELSE RecordAll(_record(c, Head(cs)), Tail(cs))

\* ------------------------------------------------------------- DNS server
\* rdata of an update as the server parses it from its text
Rdata(rrtype, data) ==
    IF rrtype = "PTR" THEN from_text(data) ELSE inet_aton(data)

\* one update of a zone's UPDATE message applied to the records: add a
\* record, delete a record or all records of a type, replace the records of
\* a type by one
ApplyOne(records, zonename, u) ==
    LET owner == derelativize(u.dnsname, zonename)
        rr == RR(owner, u.rrtype, Rdata(u.rrtype, u.data))
        others == {r \in records : r.name # owner \/ r.rrtype # u.rrtype}
    IN  IF u.action = "delete"
        THEN IF u.data = None THEN others ELSE records \ {rr}
        ELSE IF u.action = "replace" THEN others \cup {rr}
        ELSE records \cup {rr}

RECURSIVE ApplyAll(_, _, _)
ApplyAll(records, zonename, updates) ==
    IF updates = <<>> THEN records
    ELSE ApplyAll(ApplyOne(records, zonename, Head(updates)), zonename,
                  Tail(updates))

\* DDNSUpdater.__call__ / DummyUpdater.__call__ for one zone of the batch.
\* outcome: "NOERROR" the server applied the message; "FAIL" it answered
\* another rcode, which is printed; "RAISE" dns.query.tcp raised (no
\* connection); the dummy updater only prints.
Updater(records, zonename, updates, outcome) ==
    IF zones[zonename] = "DDNSUpdater" /\ outcome = "NOERROR"
    THEN ApplyAll(records, zonename, updates)
    ELSE records

\* UpdateMapper.commit: the updaters of the batch in dictionary order, the
\* loop ending at the first updater that raises; outs[z] is the outcome the
\* updater of zone z has when it is invoked
RECURSIVE commit(_, _, _, _)
commit(c, outs, records, inv) ==
    IF c = <<>> THEN [dns |-> records, invoked |-> inv, raised |-> FALSE]
    ELSE LET e   == Head(c)
             out == outs[e.zone]
             i1  == Append(inv, [zone |-> e.zone, updates |-> e.updates,
                                 outcome |-> out])
         IN  IF out = "RAISE"
             THEN [dns |-> records, invoked |-> i1, raised |-> TRUE]
             ELSE commit(Tail(c), outs,
                         Updater(records, e.zone, e.updates, out), i1)

\* the route as it would be if every updater were taken to have a query
\* method
Route_any_updater(dnsname) ==
    IF _find(dnsname) # NotFound THEN "updater" ELSE "resolver"

\* UpdateMapper.query: the route of a query
Route(dnsname) ==
    LET zonename == _find(dnsname) IN
    IF zonename # NotFound /\ zones[zonename] = "DDNSUpdater"
    THEN "updater" ELSE "resolver"

\* the records a query for (dnsname, rrtype) is answered from
Answer(records, dnsname, rrtype) ==
    {r \in records : r.name = dnsname /\ r.rrtype = rrtype}

\* what resolver.query signals: an answer, NXDOMAIN when the name owns no
\* record, NoAnswer when it owns none of the type
Signal(records, dnsname, rrtype) ==
    IF Answer(records, dnsname, rrtype) # {} THEN "answer"
    ELSE IF \E r \in records : r.name = dnsname THEN "NoAnswer"
    ELSE "NXDOMAIN"

\* UpdateMapper.query as update_dns sees it: the route taken, what the
\* resolver signals and the answer in the order received.  timeout: the
\* resolver raises something other than NXDOMAIN / NoAnswer.
query(dnsname, rrtype, order, timeout) ==
    [dnsname |-> dnsname, rrtype |-> rrtype, route |-> Route(dnsname),
     signal |-> IF timeout THEN "Timeout" ELSE Signal(dns, dnsname, rrtype),
     rr |-> IF timeout THEN <<>> ELSE order]

\* ------------------------------------------------------------- DNSWebHook
\* the except clause as it would be if it named NXDOMAIN alone
Caught_nxdomain_only(signal) == signal = "NXDOMAIN"

\* except (dns.resolver.NXDOMAIN, dns.resolver.NoAnswer): rr = []
Caught(signal) == signal \in {"NXDOMAIN", "NoAnswer"}

\* the outcome of a call of update_dns / delete_dns
Outcome(res, qs, cs, c, inv, records) ==
    [result |-> res, queries |-> qs, calls |-> cs, ctx |-> c,
     invoked |-> inv, dns |-> records]

\* the loop over the forward answers as it would be if a stale address
\* record were deleted without the PTR record of that address
RECURSIVE ForwardLoop_without_ptr(_, _, _, _, _)
ForwardLoop_without_ptr(rr, address, rrname, rrtype, acc) ==
    IF rr = <<>> THEN acc
    ELSE LET r_address == inet_ntoa(Head(rr).rdata)
         IN  ForwardLoop_without_ptr(Tail(rr), address, rrname, rrtype,
                 IF r_address = address
                 THEN [acc EXCEPT !.found = TRUE]
                 ELSE [acc EXCEPT !.calls =
                         Append(@, delete(rrname, rrtype, r_address))])

\* update_dns, lines 205-215: the loop over the forward answers
RECURSIVE ForwardLoop(_, _, _, _, _)
ForwardLoop(rr, address, rrname, rrtype, acc) ==
    IF rr = <<>> THEN acc
    ELSE LET r_address == inet_ntoa(Head(rr).rdata)
             other == from_address(r_address)
         IN  ForwardLoop(Tail(rr), address, rrname, rrtype,
                 IF r_address = address
                 THEN [acc EXCEPT !.found = TRUE]
                 ELSE [acc EXCEPT !.calls = @ \o
                         <<delete(rrname, rrtype, r_address),
                           delete(other, "PTR", to_text(rrname))>>])

\* the loop over the PTR answers as it would be if a stale PTR record were
\* deleted without the address record of its target
RECURSIVE ReverseLoop_without_forward(_, _, _, _, _, _)
ReverseLoop_without_forward(rr, address, name, rrname, rrtype, acc) ==
    IF rr = <<>> THEN acc
    ELSE LET r_target == Head(rr).rdata
             revname == from_address(address)
         IN  ReverseLoop_without_forward(Tail(rr), address, name, rrname,
                 rrtype,
                 IF Truthy(name) /\ r_target = rrname
                 THEN [acc EXCEPT !.found = TRUE]
                 ELSE [acc EXCEPT !.calls =
                         Append(@, delete(revname, "PTR", to_text(r_target)))])

\* update_dns, lines 225-234: the loop over the PTR answers
RECURSIVE ReverseLoop(_, _, _, _, _, _)
ReverseLoop(rr, address, name, rrname, rrtype, acc) ==
    IF rr = <<>> THEN acc
    ELSE LET r_target == Head(rr).rdata
             revname == from_address(address)
         IN  ReverseLoop(Tail(rr), address, name, rrname, rrtype,
                 IF Truthy(name) /\ r_target = rrname
                 THEN [acc EXCEPT !.found = TRUE]
                 ELSE [acc EXCEPT !.calls = @ \o
                         <<delete(revname, "PTR", to_text(r_target)),
                           delete(r_target, rrtype, address)>>])

\* update_dns, lines 193-237: parsing, the two queries and the calls made
\* on the batch; qfail names the query that raises ("none" for neither)
Reconcile(address, name, fo, po, qfail) ==
    IF ~AddrParses(address) \/ (Truthy(name) /\ ~NameParses(name))
    THEN [result |-> "raised:parse", queries |-> <<>>, calls |-> <<>>]
    ELSE
    LET revname == from_address(address)
        rrname  == IF Truthy(name) THEN from_text(name) ELSE name
        rrtype  == IF is_subdomain(revname, IP6_ARPA) THEN "AAAA" ELSE "A"
        q1 == query(rrname, rrtype, fo, qfail = "forward")
        fwd == IF q1.signal = "answer"
               THEN ForwardLoop(q1.rr, address, rrname, rrtype,
                                [found |-> FALSE, calls |-> <<>>])
               ELSE [found |-> FALSE, calls |-> <<>>]
        c1 == IF ~Truthy(name) THEN <<>>
              ELSE IF fwd.found THEN fwd.calls
              ELSE Append(fwd.calls, add(rrname, ttl, rrtype, address))
        qs1 == IF Truthy(name) THEN <<q1>> ELSE <<>>
        q2 == query(revname, "PTR", po, qfail = "reverse")
        rev == IF q2.signal = "answer"
               THEN ReverseLoop(q2.rr, address, name, rrname, rrtype,
                                [found |-> FALSE, calls |-> c1])
               ELSE [found |-> FALSE, calls |-> c1]
        c2 == IF Truthy(name) /\ ~rev.found
              THEN Append(rev.calls, add(revname, ttl, "PTR", to_text(rrname)))
              ELSE rev.calls
    IN  IF Truthy(name) /\ q1.signal # "answer" /\ ~Caught(q1.signal)
        THEN [result |-> "raised:query", queries |-> qs1, calls |-> <<>>]
        ELSE IF q2.signal # "answer" /\ ~Caught(q2.signal)
        THEN [result |-> "raised:query", queries |-> Append(qs1, q2),
              calls |-> c1]
        ELSE [result |-> "built", queries |-> Append(qs1, q2), calls |-> c2]

\* the commit as it would be if the lists of the batch were handed over twice
Commit_twice(built, outs) ==
    LET c == RecordAll(begin, built.calls)
        done == commit(c \o c, outs, dns, <<>>)
    IN  Outcome(IF done.raised THEN "raised:commit" ELSE "returned",
                built.queries, built.calls, c, done.invoked, done.dns)

\* line 240 / 256: self.mapper.commit(ctx) on the batch of the calls made
Commit(built, outs) ==
    LET c == RecordAll(begin, built.calls)
        done == commit(c, outs, dns, <<>>)
    IN  Outcome(IF done.raised THEN "raised:commit" ELSE "returned",
                built.queries, built.calls, c, done.invoked, done.dns)

\* a call that ended before its commit as it would be if the batch built so
\* far were committed all the same
Aborted_committing(built) ==
    LET c == RecordAll(begin, built.calls)
        outs == [z \in DOMAIN zones |->
                    IF zones[z] = "DummyUpdater" THEN "PRINTED" ELSE "NOERROR"]
        done == commit(c, outs, dns, <<>>)
    IN  Outcome(built.result, built.queries, built.calls, c, done.invoked,
                done.dns)

\* a call that ended before its commit
Aborted(built) ==
    Outcome(built.result, built.queries, built.calls,
            RecordAll(begin, built.calls), <<>>, dns)

\* DNSWebHook.update_dns
update_dns(address, name, fo, po, qfail, outs) ==
    LET built == Reconcile(address, name, fo, po, qfail)
    IN  IF built.result = "built" THEN Commit(built, outs) ELSE Aborted(built)

\* delete_dns as it would be if it tested "name is not None" instead of the
\* truth of name
Removal_unless_none(address, name) ==
    IF name = None
    THEN [result |-> "returned", queries |-> <<>>, calls |-> <<>>]
    ELSE IF ~AddrParses(address) \/ ~NameParses(name)
    THEN [result |-> "raised:parse", queries |-> <<>>, calls |-> <<>>]
    ELSE LET revname == from_address(address)
             rrname  == from_text(name)
             rrtype  == IF is_subdomain(revname, IP6_ARPA) THEN "AAAA" ELSE "A"
         IN  [result |-> "built", queries |-> <<>>,
              calls |-> <<delete(rrname, rrtype, address),
                          delete(revname, "PTR", to_text(rrname))>>]

\* delete_dns, lines 248-255
Removal(address, name) ==
    IF ~Truthy(name)
    THEN [result |-> "returned", queries |-> <<>>, calls |-> <<>>]
    ELSE IF ~AddrParses(address) \/ ~NameParses(name)
    THEN [result |-> "raised:parse", queries |-> <<>>, calls |-> <<>>]
    ELSE LET revname == from_address(address)
             rrname  == from_text(name)
             rrtype  == IF is_subdomain(revname, IP6_ARPA) THEN "AAAA" ELSE "A"
         IN  [result |-> "built", queries |-> <<>>,
              calls |-> <<delete(rrname, rrtype, address),
                          delete(revname, "PTR", to_text(rrname))>>]

\* DNSWebHook.delete_dns
delete_dns(address, name, outs) ==
    LET built == Removal(address, name)
    IN  IF built.result = "built" THEN Commit(built, outs) ELSE Aborted(built)

\* data["address"].split("/")[0]: the host part of Netbox's address/length
Cidr(address, length) == [address |-> address, length |-> length]
split_0(cidr) == cidr.address

\* a call that was never made (the request was refused or the event ignored)
NoCall == Outcome("none", <<>>, <<>>, <<>>, <<>>, dns)

\* __call__ as it would be if the model of the body were not looked at
__call___any_model(req, fo, po, qfail, outs) ==
    IF req.method # "POST"
    THEN [status |-> "405", call |-> NoCall]
    ELSE IF api_key /\ req.signature # "valid"
    THEN [status |-> "403", call |-> NoCall]
    ELSE LET call ==
               IF req.event \in {"created", "updated"}
               THEN update_dns(split_0(req.address), req.dns_name,
                               fo, po, qfail, outs)
               ELSE IF req.event = "deleted"
               THEN delete_dns(split_0(req.address), req.dns_name, outs)
               ELSE NoCall
         IN  [status |-> IF call.result \in {"none", "returned"}
                         THEN "200" ELSE "500",
              call |-> call]

\* DNSWebHook.__call__: the status it answers and the call it makes; an
\* exception leaving the application is answered with 500 by wsgiref
__call__(req, fo, po, qfail, outs) ==
    IF req.method # "POST"
    THEN [status |-> "405", call |-> NoCall]
    ELSE IF api_key /\ req.signature # "valid"
    THEN [status |-> "403", call |-> NoCall]
    ELSE IF req.model # "ipaddress"
    THEN [status |-> "400", call |-> NoCall]
    ELSE LET call ==
               IF req.event \in {"created", "updated"}
               THEN update_dns(split_0(req.address), req.dns_name,
                               fo, po, qfail, outs)
               ELSE IF req.event = "deleted"
               THEN delete_dns(split_0(req.address), req.dns_name, outs)
               ELSE NoCall
         IN  [status |-> IF call.result \in {"none", "returned"}
                         THEN "200" ELSE "500",
              call |-> call]

\* ------------------------------------------------------------ environment
\* hosts and addresses of the requests and of the live DNS
H1 == <<"h", "example", "com">>
H2 == <<"g", "example", "com">>
Hosts == {H1, H2}

A1 == AddrText("4", <<"192", "0", "2", "1">>, "canon")
A2 == AddrText("4", <<"192", "0", "2", "2">>, "canon")
A9 == AddrText("4", <<"9", "9", "9", "9">>, "canon")
\* an IPv6 address (its nibbles cut to two) in its canonical spelling and
\* in another spelling of the same address (upper case, uncompressed)
A6 == AddrText("6", <<"d", "1">>, "canon")
A6alt == AddrText("6", <<"d", "1">>, "alt")
Abad == AddrText("bad", <<>>, "canon")
Addresses == {A1, A2, A9, A6}
AddressTexts == Addresses \cup {A6alt, Abad}

NameTexts == {None, EmptyStr, NameText(H1, TRUE), NameText(H2, FALSE),
              NameText(<<"h", "", "example", "com">>, TRUE)}

TypeOf(address) == IF address.fam = "6" THEN "AAAA" ELSE "A"

\* the records live DNS may hold when a request arrives: bindings of the
\* hosts with an address of each reverse zone and one outside the zones
Universe ==
    {RR(h, TypeOf(a), inet_aton(a)) : h \in Hosts, a \in {A1, A9, A6}}
    \cup {RR(from_address(a), "PTR", h) : a \in {A1, A9, A6}, h \in Hosts}

\* the zones of nb_dns_run.py (ZONES, every zone on the DDNS updater) and of
\* the command line of __main__ (the root on the dummy updater)
ZonesRun ==
    [z \in {<<"example", "com">>, <<"2", "0", "192", "in-addr", "arpa">>,
            IP6_ARPA} |-> "DDNSUpdater"]
ZonesMain == [z \in {Root} |-> "DummyUpdater"]

Requests ==
    [method : {"POST"}, signature : {"valid"}, model : {"ipaddress"},
     event : {"updated", "deleted"},
     address : {Cidr(a, "24") : a \in AddressTexts}, dns_name : NameTexts]
    \cup
    [method : {"POST"}, signature : {"valid"}, model : {"ipaddress"},
     event : {"created"},
     address : {Cidr(A1, "24"), Cidr(A6, "64")},
     dns_name : {EmptyStr, NameText(H1, TRUE)}]
    \cup
    [method : {"POST", "GET"}, signature : {"valid", "invalid"},
     model : {"ipaddress", "prefix"}, event : {"updated", "renamed"},
     address : {Cidr(A1, "24")}, dns_name : {NameText(H1, TRUE)}]
    \cup
    [method : {"POST"}, signature : {"valid"}, model : {"ipaddress"},
     event : {"created"},
     address : {Cidr(A9, "24")},
     dns_name : {NameText(<<"x", "other", "net">>, TRUE)}]

\* sys.argv of the command line: "--delete" or not, address, name
CommandLines ==
    [delete : BOOLEAN, address : AddressTexts, name : NameTexts \ {None}]

\* the orders in which the records of an answer may arrive
Orders(S) ==
    {o \in [1..Cardinality(S) -> S] : \A i, j \in DOMAIN o : o[i] = o[j] => i = j}

\* the outcomes the updaters of the zones may have when invoked
Outcomes ==
    {outs \in [DOMAIN zones -> {"NOERROR", "FAIL", "RAISE", "PRINTED"}] :
        /\ \A z \in DOMAIN zones :
               (outs[z] = "PRINTED") <=> (zones[z] = "DummyUpdater")
        /\ Cardinality({z \in DOMAIN zones : outs[z] \in {"FAIL", "RAISE"}})
               <= MaxFailures}

\* the answers update_dns would get for (address, name), when they parse
ForwardAnswer(address, name) ==
    IF AddrParses(address) /\ Truthy(name) /\ NameParses(name)
    THEN Answer(dns, from_text(name), TypeOf(address))
    ELSE {}
ReverseAnswer(address) ==
    IF AddrParses(address) THEN Answer(dns, from_address(address), "PTR")
    ELSE {}

\* ---------------------------------------------------------------- actions
Finish(where, req, st, call) ==
    /\ pc' = where
    /\ request' = req
    /\ status' = st
    /\ before' = dns
    /\ dns' = call.dns
    /\ queries' = call.queries
    /\ calls' = call.calls
    /\ ctx' = call.ctx
    /\ invoked' = call.invoked
    /\ result' = call.result
    /\ UNCHANGED <<zones, api_key, found>>

\* the choices of the environment which bear on a call: which of the
\* queries it makes may raise, and the outcomes of the updaters of the zones
\* of its batch (the others are not invoked)
Quiet ==
    [z \in DOMAIN zones |->
        IF zones[z] = "DummyUpdater" THEN "PRINTED" ELSE "NOERROR"]
QueryFailures(qs) ==
    {"none"} \cup (IF Len(qs) = 2 THEN {"forward"} ELSE {})
             \cup (IF Len(qs) >= 1 THEN {"reverse"} ELSE {})
OutcomesOf(c, qfail) ==
    {outs \in Outcomes :
        \A z \in DOMAIN zones :
            (qfail # "none" \/ \A i \in 1..Len(c) : c[i].zone # z)
                => outs[z] = Quiet[z]}

\* simple_server: one webhook request handled by DNSWebHook.__call__
Serve ==
    /\ pc = "idle"
    /\ zones = ZonesRun
    /\ \E req \in Requests :
       \E fo \in Orders(ForwardAnswer(split_0(req.address), req.dns_name)),
          po \in Orders(ReverseAnswer(split_0(req.address))) :
          LET calm == __call__(req, fo, po, "none", Quiet).call IN
          \E qfail \in QueryFailures(calm.queries) :
          \E outs \in OutcomesOf(calm.ctx, qfail) :
             LET r == __call__(req, fo, po, qfail, outs)
             IN  Finish("served", req, r.status, r.call)

\* __main__: the command line, which shows the updates it would make
Main ==
    /\ pc = "idle"
    /\ zones = ZonesMain
    /\ \E argv \in CommandLines :
       \E fo \in Orders(ForwardAnswer(argv.address, argv.name)),
          po \in Orders(ReverseAnswer(argv.address)) :
          LET calm == IF argv.delete
                      THEN delete_dns(argv.address, argv.name, Quiet)
                      ELSE update_dns(argv.address, argv.name, fo, po, "none",
                                      Quiet)
          IN
          \E qfail \in QueryFailures(calm.queries) :
          \E outs \in OutcomesOf(calm.ctx, qfail) :
             Finish("ran", argv, "none",
                    IF argv.delete
                    THEN delete_dns(argv.address, argv.name, outs)
                    ELSE update_dns(argv.address, argv.name, fo, po, qfail,
                                    outs))

Init ==
    /\ pc = "idle"
    /\ \E deploy \in {<<ZonesRun, TRUE>>, <<ZonesRun, FALSE>>,
                      <<ZonesMain, FALSE>>} :
          zones = deploy[1] /\ api_key = deploy[2]
    /\ dns \in {S \in SUBSET Universe : Cardinality(S) <= MaxRecords}
    /\ request = None
    /\ queries = <<>>
    /\ calls = <<>>
    /\ ctx = <<>>
    /\ invoked = <<>>
    /\ result = "none"
    /\ status = "none"
    /\ before = dns
    /\ found = NotFound

Next == Serve \/ Main

Spec == Init /\ [][Next]_vars

\* ------------------------------------------------ the zone lookup on its own
\* names of at most MaxLabels labels, and the names of the documented
\* examples with all their ancestors
RECURSIVE NamesUpTo(_)
NamesUpTo(n) ==
    IF n = 0 THEN {Root}
    ELSE NamesUpTo(n - 1) \cup
         {<<l>> \o m : l \in {"a", "example", "com"},
                       m \in {k \in NamesUpTo(n - 1) : Len(k) = n - 1}}

Ancestors(dnsname) ==
    {SubSeq(dnsname, i, Len(dnsname)) : i \in 1..(Len(dnsname) + 1)}

ExampleZones ==
    [z \in {<<"example", "com">>, <<"2", "0", "192", "in-addr", "arpa">>}
        |-> "DDNSUpdater"]
ExampleNames ==
    {<<"a", "b", "example", "com">>,
     <<"10", "2", "0", "192", "in-addr", "arpa">>, <<"other", "net">>}

LookupNames ==
    NamesUpTo(MaxLabels) \cup UNION {Ancestors(n) : n \in ExampleNames}

LookupZones ==
    {Root, <<"com">>, <<"example", "com">>, <<"a", "example", "com">>,
     <<"in-addr", "arpa">>, <<"2", "0", "192", "in-addr", "arpa">>}

InitFind ==
    /\ pc = "idle"
    /\ \E Z \in SUBSET LookupZones : zones = [z \in Z |-> "DDNSUpdater"]
    /\ api_key = FALSE
    /\ dns = {}
    /\ request \in LookupNames
    /\ queries = <<>>
    /\ calls = <<>>
    /\ ctx = <<>>
    /\ invoked = <<>>
    /\ result = "none"
    /\ status = "none"
    /\ before = {}
    /\ found = NotFound

\* one call of UpdateMapper._find
Find ==
    /\ pc = "idle"
    /\ pc' = "found"
    /\ found' = _find(request)
    /\ UNCHANGED <<zones, api_key, dns, request, queries, calls, ctx,
                   invoked, result, status, before>>

NextFind == Find

SpecFind == InitFind /\ [][NextFind]_vars

\* the registered zones which are the name or one of its ancestors
Enclosing(dnsname) == {z \in DOMAIN zones : is_subdomain(dnsname, z)}

\* C8: the lookup returns the registered zone that is the name or its
\* nearest ancestor (the longest registered suffix), NotFound when neither
\* the name nor any ancestor up to the root is registered, and gives the
\* documented answers for the zones example.com. and 2.0.192.in-addr.arpa.
C8_LongestSuffix ==
    pc = "found" =>
        /\ IF Enclosing(request) = {} THEN found = NotFound
           ELSE /\ found \in Enclosing(request)
                /\ \A z \in Enclosing(request) : Len(z) <= Len(found)
        /\ zones = ExampleZones =>
             /\ request = <<"a", "b", "example", "com">>
                   => found = <<"example", "com">>
             /\ request = <<"10", "2", "0", "192", "in-addr", "arpa">>
                   => found = <<"2", "0", "192", "in-addr", "arpa">>
             /\ request = <<"other", "net">> => found = NotFound

\* a lookup that had to pass over a registered ancestor's descendant: the
\* name is below two nested registered zones and the nearer one is returned
C8_Witness ==
    /\ pc = "found"
    /\ Cardinality(Enclosing(request)) >= 2
    /\ found # request
    /\ found # NotFound
    /\ \E z \in Enclosing(request) : Len(z) < Len(found)

\* ------------------------------------------------------------ the calls made
\* update_dns was called (events created and updated, or the command line
\* without --delete), delete_dns was called
Updated ==
    \/ pc = "served" /\ status \in {"200", "500"}
                     /\ request.event \in {"created", "updated"}
    \/ pc = "ran" /\ ~request.delete
Deleted ==
    \/ pc = "served" /\ status \in {"200", "500"} /\ request.event = "deleted"
    \/ pc = "ran" /\ request.delete

\* the arguments of the call
CallAddress ==
    IF pc = "served" THEN split_0(request.address) ELSE request.address
CallName == IF pc = "served" THEN request.dns_name ELSE request.name

\* the call got as far as its commit
Committed == result \in {"returned", "raised:commit"}

\* the records of an answer for which keep(r) is false, in answer order
Stale(rr, keep(_)) == SelectSeq(rr, LAMBDA r : ~keep(r))

\* the two deletes made for each stale record, one stale record after the
\* other: first(r) then second(r)
DeletePairs(stale, first(_), second(_)) ==
    [j \in 1..(2 * Len(stale)) |->
        IF j % 2 = 1 THEN first(stale[(j + 1) \div 2])
        ELSE second(stale[j \div 2])]

\* the operation list of query-assisted reconciliation for (address, name)
\* with name present, given the forward and the PTR answer
Expected(address, name, fwd, ptr) ==
    LET rrname  == from_text(name)
        revname == from_address(address)
        rrtype  == TypeOf(address)
        SameAddress(r) == inet_ntoa(r.rdata) = address
        SameName(r) == r.rdata = rrname
    IN  DeletePairs(Stale(fwd, SameAddress),
                    LAMBDA r : delete(rrname, rrtype, inet_ntoa(r.rdata)),
                    LAMBDA r : delete(from_address(inet_ntoa(r.rdata)), "PTR",
                                      to_text(rrname)))
        \o (IF \E i \in 1..Len(fwd) : SameAddress(fwd[i]) THEN <<>>
            ELSE <<add(rrname, ttl, rrtype, address)>>)
        \o DeletePairs(Stale(ptr, SameName),
                       LAMBDA r : delete(revname, "PTR", to_text(r.rdata)),
                       LAMBDA r : delete(r.rdata, rrtype, address))
        \o (IF \E i \in 1..Len(ptr) : SameName(ptr[i]) THEN <<>>
            ELSE <<add(revname, ttl, "PTR", to_text(rrname))>>)

\* the records of a sequence of answers
Range(s) == {s[i] : i \in 1..Len(s)}

\* C1: update_dns(address, name) with name present makes exactly these calls
\* on the batch, in this order: for each existing forward record of name
\* whose data differs from address, delete forward name->stale then delete
\* PTR reverse(stale)->name; add forward name->address with the configured
\* TTL iff no forward record had data equal to address; for each existing
\* PTR of reverse(address) whose target differs from name, delete PTR
\* reverse(address)->target then delete forward target->address; add PTR
\* reverse(address)->name iff no PTR targeted name.  With A h->9.9.9.9 and
\* no PTR, (192.0.2.1, h) gives delete A h->9.9.9.9; delete PTR
\* rev(9.9.9.9)->h; add A h->192.0.2.1; add PTR rev(192.0.2.1)->h.
C1_OperationList ==
    Updated /\ Truthy(CallName) /\ Committed =>
        /\ Len(queries) = 2
        /\ Range(queries[1].rr) =
               Answer(before, from_text(CallName), TypeOf(CallAddress))
        /\ Range(queries[2].rr) =
               Answer(before, from_address(CallAddress), "PTR")
        /\ calls = Expected(CallAddress, CallName, queries[1].rr,
                            queries[2].rr)
        /\ (/\ before = {RR(H1, "A", inet_aton(A9))}
            /\ CallAddress = A1
            /\ from_text(CallName) = H1)
           => calls = <<delete(H1, "A", A9),
                        delete(from_address(A9), "PTR", to_text(H1)),
                        add(H1, ttl, "A", A1),
                        add(from_address(A1), ttl, "PTR", to_text(H1))>>

\* a reconciliation which found a stale forward record and a stale PTR
\* record and made all six calls
C1_Witness ==
    /\ Updated /\ Truthy(CallName) /\ Committed
    /\ Len(calls) = 6
    /\ calls[1].action = "delete" /\ calls[3].action = "add"
    /\ calls[4].action = "delete" /\ calls[6].action = "add"

\* ------------------------------------------------- modifying a binding (C2)
\* the forward record and the PTR record of the binding (address, host)
Binding(address, host) ==
    {RR(host, TypeOf(address), inet_aton(address)),
     RR(from_address(address), "PTR", host)}

\* every zone updater invoked by the call answered NOERROR and the call
\* returned
AllSucceeded ==
    /\ result = "returned"
    /\ \A k \in 1..Len(invoked) : invoked[k].outcome = "NOERROR"

\* an 'updated' event for (a2, n2), both parsing, with live DNS holding
\* exactly the binding (a1, n1) and every name in a registered zone
Modified(a1, n1) ==
    /\ pc = "served" /\ status \in {"200", "500"}
    /\ request.event = "updated"
    /\ before = Binding(a1, n1)
    /\ AddrParses(CallAddress) /\ Truthy(CallName) /\ NameParses(CallName)
    /\ \A n \in {n1, from_address(a1), from_text(CallName),
                 from_address(CallAddress)} : _find(n) # NotFound
    /\ AllSucceeded

AddressChanged(a1, n1) ==
    inet_aton(CallAddress) # inet_aton(a1) /\ from_text(CallName) = n1
NameChanged(a1, n1) ==
    CallAddress = a1 /\ from_text(CallName) # n1

\* what the claim promises of a modified binding
ModifiedWell(a1, n1) ==
    /\ Binding(inet_ntoa(inet_aton(CallAddress)), from_text(CallName))
          \subseteq dns
    /\ dns \cap Binding(a1, n1) = {}
    /\ AddressChanged(a1, n1) =>
          calls = <<delete(n1, TypeOf(a1), a1),
                    delete(from_address(a1), "PTR", to_text(n1)),
                    add(n1, ttl, TypeOf(CallAddress), CallAddress),
                    add(from_address(CallAddress), ttl, "PTR", to_text(n1))>>

\* C2: from live DNS holding exactly n1->a1 and reverse(a1)->n1, an
\* 'updated' event for (a2, n1) with a2 # a1, or for (a1, n2) with n2 # n1,
\* leaves DNS with the new forward and PTR records and without the old
\* ones; for the address change the batch is delete n1->a1, delete
\* reverse(a1)->n1, add n1->a2, add reverse(a2)->n1.
C2_ModifyNameOrAddress ==
    \A a1 \in Addresses, n1 \in Hosts :
        Modified(a1, n1) /\ (AddressChanged(a1, n1) \/ NameChanged(a1, n1))
            => ModifiedWell(a1, n1)

\* the same, for a new address of the family of the old one
C2_WithinFamily ==
    \A a1 \in Addresses, n1 \in Hosts :
        /\ Modified(a1, n1)
        /\ AddressChanged(a1, n1) \/ NameChanged(a1, n1)
        /\ TypeOf(CallAddress) = TypeOf(a1)
        => ModifiedWell(a1, n1)

\* -------------------------------------------------- commit and failures
SomeFailed ==
    \E k \in 1..Len(invoked) : invoked[k].outcome \in {"FAIL", "RAISE"}
SomeRaised == \E k \in 1..Len(invoked) : invoked[k].outcome = "RAISE"

\* every zone key of the batch was handed, with all its updates, to its
\* updater
AllInvoked ==
    \A i \in 1..Len(ctx) :
        \E k \in 1..Len(invoked) :
            invoked[k].zone = ctx[i].zone /\ invoked[k].updates = ctx[i].updates

\* the records left by the invocations which answered NOERROR
RECURSIVE AppliedBy(_, _)
AppliedBy(inv, records) ==
    IF inv = <<>> THEN records
    ELSE AppliedBy(Tail(inv),
                   IF Head(inv).outcome = "NOERROR"
                   THEN ApplyAll(records, Head(inv).zone, Head(inv).updates)
                   ELSE records)

\* C4: when the updater of one zone of a batch fails, the updater of every
\* other zone key of the batch is still invoked with that zone's full
\* operation sequence, the zones after the failing one included, and what
\* was applied to other zones stays applied.
C4_FailureBlocksNoZone ==
    SomeFailed => AllInvoked /\ dns = AppliedBy(invoked, before)

\* the same for the failure the updater reports itself: an rcode other than
\* NOERROR, which it prints
C4_ReportedFailure ==
    SomeFailed /\ ~SomeRaised => AllInvoked /\ dns = AppliedBy(invoked, before)

\* C10: when a zone's updater fails during commit, update_dns and
\* delete_dns still return normally and the webhook answers 200 OK as for
\* a reconciliation without failure.
C10_FailureAnswers200 ==
    SomeFailed => result = "returned" /\ (pc = "served" => status = "200")

\* the same for the failure the updater reports itself
C10_ReportedFailure ==
    SomeFailed /\ ~SomeRaised =>
        result = "returned" /\ (pc = "served" => status = "200")

\* ------------------------------------------------------- absent name (C5, C6)
\* C5: delete_dns(address, name) with name None or empty makes no call on
\* the batch, asks no query and invokes no zone updater, whatever the
\* address, so the records of DNS (the PTR records of the address among
\* them) are as they were.
C5_AbsentNameDeletesNothing ==
    Deleted /\ ~Truthy(CallName) =>
        /\ result = "returned"
        /\ queries = <<>> /\ calls = <<>> /\ ctx = <<>> /\ invoked = <<>>
        /\ dns = before

\* a delete without name for an address which has a PTR record
C5_Witness ==
    /\ Deleted /\ ~Truthy(CallName) /\ AddrParses(CallAddress)
    /\ Answer(dns, from_address(CallAddress), "PTR") # {}

\* C6: update_dns(address, name) with name absent asks the PTR query only
\* and makes, for every existing PTR record of reverse(address), delete PTR
\* reverse(address)->target then delete forward target->address, and no
\* add; once the batch is applied (reverse zone registered, every updater
\* answering NOERROR) reverse(address) has no PTR record.
C6_EmptyNameRemovesPTR ==
    Updated /\ ~Truthy(CallName) /\ Committed =>
        LET revname == from_address(CallAddress) IN
        /\ Len(queries) = 1
        /\ queries[1].dnsname = revname /\ queries[1].rrtype = "PTR"
        /\ Range(queries[1].rr) = Answer(before, revname, "PTR")
        /\ calls = DeletePairs(queries[1].rr,
                     LAMBDA r : delete(revname, "PTR", to_text(r.rdata)),
                     LAMBDA r : delete(r.rdata, TypeOf(CallAddress),
                                       CallAddress))
        /\ \A i \in 1..Len(calls) : calls[i].action # "add"
        /\ (Enclosing(revname) # {} /\ AllSucceeded)
              => Answer(dns, revname, "PTR") = {}

\* an address saved without name whose PTR records were removed
C6_Witness ==
    /\ Updated /\ ~Truthy(CallName) /\ Committed
    /\ Answer(before, from_address(CallAddress), "PTR") # {}
    /\ Answer(dns, from_address(CallAddress), "PTR") = {}
    /\ Len(calls) >= 2

\* --------------------------------------------------- malformed input (C7)
\* the address or the name of the call is text that does not parse
Malformed ==
    /\ Updated \/ Deleted
    /\ \/ ~AddrParses(CallAddress)
       \/ CallName # None /\ ~NameParses(CallName)

\* the call ended before a batch was begun: nothing asked, recorded, handed
\* to an updater or changed
FailedBeforeBatch ==
    /\ result = "raised:parse"
    /\ queries = <<>> /\ calls = <<>> /\ ctx = <<>> /\ invoked = <<>>
    /\ dns = before

\* C7: when the address or the name given to update_dns or delete_dns
\* cannot be parsed the call fails before any batch is built and no zone
\* updater is invoked; a call which fails before its commit has invoked no
\* zone updater.
C7_MalformedFails ==
    /\ Malformed => FailedBeforeBatch
    /\ result \in {"raised:parse", "raised:query"}
          => invoked = <<>> /\ dns = before

\* C7 as amended: so for update_dns and for delete_dns with name present;
\* delete_dns with name absent parses nothing and returns normally, having
\* built no batch and invoked no updater.
C7_MalformedFailsWhenParsed ==
    /\ Malformed /\ (Updated \/ Truthy(CallName)) => FailedBeforeBatch
    /\ Malformed /\ Deleted /\ ~Truthy(CallName) =>
          /\ result = "returned"
          /\ queries = <<>> /\ calls = <<>> /\ ctx = <<>> /\ invoked = <<>>
          /\ dns = before
    /\ result \in {"raised:parse", "raised:query"}
          => invoked = <<>> /\ dns = before

\* an update whose name does not parse, for an address which parses and has
\* a PTR record: the call failed before it asked or recorded anything
C7_Witness ==
    /\ Updated /\ Malformed /\ FailedBeforeBatch
    /\ AddrParses(CallAddress) /\ ~NameParses(CallName)
    /\ Answer(before, from_address(CallAddress), "PTR") # {}

\* ------------------------------------------------- not-found answers (C9)
\* C9: when the forward query and the PTR query of update_dns(address,
\* name) with name present both signal NXDOMAIN or NoAnswer, the call goes
\* on without error, makes exactly add forward name->address then add PTR
\* reverse(address)->name, and commits the batch of these two.
C9_NotFoundIsEmpty ==
    /\ Updated /\ Truthy(CallName)
    /\ AddrParses(CallAddress) /\ NameParses(CallName)
    /\ Len(queries) >= 1 /\ queries[1].signal \in {"NXDOMAIN", "NoAnswer"}
    /\ Len(queries) = 1
          \/ queries[Len(queries)].signal \in {"NXDOMAIN", "NoAnswer"}
    =>
    /\ Len(queries) = 2
    /\ Committed
    /\ calls = <<add(from_text(CallName), ttl, TypeOf(CallAddress),
                     CallAddress),
                 add(from_address(CallAddress), ttl, "PTR",
                     to_text(from_text(CallName)))>>
    /\ \A i \in 1..Len(ctx) : i <= Len(invoked) => invoked[i].zone = ctx[i].zone
    /\ ctx # <<>> => invoked # <<>>

\* a reconciliation whose forward query signalled NoAnswer and whose PTR
\* query signalled NXDOMAIN, and which returned
C9_Witness ==
    /\ Updated /\ Truthy(CallName) /\ Len(queries) = 2
    /\ queries[1].signal = "NoAnswer" /\ queries[2].signal = "NXDOMAIN"
    /\ result = "returned" /\ Len(calls) = 2

\* ------------------------------------------- a batch built call by call (C3)
\* a registry with a zone inside another zone
ZonesNested ==
    [z \in {<<"example", "com">>, <<"a", "example", "com">>,
            <<"2", "0", "192", "in-addr", "arpa">>} |-> "DDNSUpdater"]

\* the calls drawn: names in a zone, in a zone inside a zone, at the apex of
\* a zone and in no registered zone
BatchCalls ==
    {add(H1, ttl, "A", A1),
     replace(<<"a", "example", "com">>, ttl, "A", A2),
     delete(<<"a", "example", "com">>, "A", None),
     add(<<"h", "a", "example", "com">>, ttl, "A", A1),
     delete(<<"h", "a", "example", "com">>, "A", A1),
     add(<<"x", "other", "net">>, ttl, "A", A1),
     delete(<<"x", "other", "net">>, "A", None),
     add(from_address(A1), ttl, "PTR", to_text(H1)),
     delete(from_address(A9), "PTR", to_text(H2))}

InitBatch ==
    /\ pc = "batch"
    /\ zones \in {ZonesRun, ZonesMain, ZonesNested}
    /\ api_key = FALSE
    /\ dns = {}
    /\ request = None
    /\ queries = <<>>
    /\ calls = <<>>
    /\ ctx = begin
    /\ invoked = <<>>
    /\ result = "none"
    /\ status = "none"
    /\ before = {}
    /\ found = NotFound

\* one call of mapper.add, mapper.replace or mapper.delete on the batch
Record ==
    /\ pc = "batch"
    /\ Len(calls) < MaxOps
    /\ \E call \in BatchCalls :
          /\ calls' = Append(calls, call)
          /\ ctx' = _record(ctx, call)
    /\ UNCHANGED <<zones, api_key, dns, pc, request, queries, invoked,
                   result, status, before, found>>

\* mapper.commit(ctx)
CommitBatch ==
    /\ pc = "batch"
    /\ \E outs \in Outcomes :
          LET done == commit(ctx, outs, dns, <<>>) IN
          /\ pc' = "committed"
          /\ invoked' = done.invoked
          /\ dns' = done.dns
          /\ result' = IF done.raised THEN "raised:commit" ELSE "returned"
    /\ UNCHANGED <<zones, api_key, request, queries, calls, ctx, status,
                   before, found>>

NextBatch == Record \/ CommitBatch

SpecBatch == InitBatch /\ [][NextBatch]_vars

\* the zone a name resolves to: its longest registered suffix
Nearest(dnsname) ==
    IF Enclosing(dnsname) = {} THEN NotFound
    ELSE CHOOSE z \in Enclosing(dnsname) :
            \A y \in Enclosing(dnsname) : Len(y) <= Len(z)

\* text is the name in the form relative to the zone
RelativeForm(text, dnsname, zonename) ==
    /\ ~text.dot
    /\ IF dnsname = zonename THEN text.labels = <<"@">>
       ELSE text.labels # <<>> /\ text.labels \o zonename = dnsname

\* the updates stored in the batch, each with its zone key
Stored ==
    UNION {{<<ctx[i].zone, ctx[i].updates[j]>> :
                j \in 1..Len(ctx[i].updates)} : i \in 1..Len(ctx)}

RECURSIVE SumLen(_)
SumLen(c) == IF c = <<>> THEN 0 ELSE Len(Head(c).updates) + SumLen(Tail(c))

\* C3: after any sequence of add/replace/delete calls, every operation
\* stored under zone key z is one of the calls made, its target name
\* resolves to z in the registry and is stored in the form relative to z; a
\* call whose target has no enclosing registered zone is stored under no
\* key, and commit hands the updaters nothing but the stored sequences.
C3_BatchPlacement ==
    /\ \A s \in Stored :
          /\ s[1] \in DOMAIN zones
          /\ \E k \in 1..Len(calls) :
                /\ Nearest(calls[k].dnsname) = s[1]
                /\ RelativeForm(s[2].dnsname, calls[k].dnsname, s[1])
                /\ [s[2] EXCEPT !.dnsname = calls[k].dnsname] = calls[k]
    /\ SumLen(ctx) =
          Cardinality({k \in 1..Len(calls) : Enclosing(calls[k].dnsname) # {}})
    /\ \A i, j \in 1..Len(ctx) : ctx[i].zone = ctx[j].zone => i = j
    /\ \A k \in 1..Len(invoked) :
          \E i \in 1..Len(ctx) :
             ctx[i].zone = invoked[k].zone /\ ctx[i].updates = invoked[k].updates

\* a committed batch of three calls: one for a name in no registered zone,
\* one for the apex of a zone inside another zone, one for a name below it
C3_Witness ==
    /\ pc = "committed" /\ result = "returned" /\ invoked # <<>>
    /\ \E k \in 1..Len(calls) : Enclosing(calls[k].dnsname) = {}
    /\ \E k \in 1..Len(calls) :
          /\ Cardinality(Enclosing(calls[k].dnsname)) = 2
          /\ calls[k].dnsname \in DOMAIN zones
    /\ \E s \in Stored : s[2].dnsname.labels = <<"@">>
    /\ \E s \in Stored : s[2].dnsname.labels = <<"h">> /\ Len(s[1]) = 3

\* ------------------------------------------------ order within a zone (C12)
\* the calls of the reconciliation whose name resolved to the zone, in call
\* order, each in the form the batch stores
HandedTo(zonename) ==
    LET own == SelectSeq(calls, LAMBDA c : Nearest(c.dnsname) = zonename)
    IN  [i \in 1..Len(own) |-> Relative(own[i], zonename)]

\* in a list of updates every delete of records of a name and type stands
\* before the add of a record of that name and type
DeletesFirst(updates) ==
    \A i, j \in 1..Len(updates) :
        /\ updates[i].action = "delete" /\ updates[j].action = "add"
        /\ updates[i].dnsname = updates[j].dnsname
        /\ updates[i].rrtype = updates[j].rrtype
        => i < j

\* C12: the sequence handed to the updater of a zone at commit is exactly
\* the subsequence, in call order, of the add/delete calls of the
\* reconciliation whose name resolved to that zone, nothing reordered,
\* doubled or lost; so in update_dns the delete of a stale forward record
\* of name stands before the add of the forward record of name, and the
\* delete of a stale PTR record of reverse(address) before the add of the
\* PTR record.
C12_OrderPerZone ==
    /\ \A i \in 1..Len(ctx) : ctx[i].updates = HandedTo(ctx[i].zone)
    /\ \A k \in 1..Len(invoked) :
          invoked[k].updates = HandedTo(invoked[k].zone)
    /\ Updated => \A k \in 1..Len(invoked) : DeletesFirst(invoked[k].updates)

\* a reconciliation of six calls, one of them for a name in no registered
\* zone and the others by turns for two zones, each zone handed its stale
\* delete and then its add
C12_Witness ==
    /\ Updated /\ Truthy(CallName) /\ result = "returned"
    /\ Len(calls) = 6 /\ Len(invoked) = 2
    /\ \A k \in 1..2 :
          /\ Len(invoked[k].updates) >= 2
          /\ invoked[k].updates[1].action = "delete"
          /\ invoked[k].updates[2].action = "add"
    /\ Len(invoked[1].updates) = 3
    /\ Nearest(calls[1].dnsname) # Nearest(calls[2].dnsname)

\* ------------------------------------------------- the delete-only path (C13)
\* C13: delete_dns(address, name) with name present asks no query, makes
\* exactly delete forward name->address (A or AAAA by the family of the
\* address) then delete PTR reverse(address)->name, and commits once,
\* handing each zone at most one list; it makes no add and no replace.
C13_DeleteOnly ==
    /\ Deleted /\ Truthy(CallName)
    /\ AddrParses(CallAddress) /\ NameParses(CallName)
    =>
    /\ queries = <<>>
    /\ calls = <<[action |-> "delete", dnsname |-> from_text(CallName),
                  rrtype |-> TypeOf(CallAddress), data |-> CallAddress],
                 [action |-> "delete", dnsname |-> from_address(CallAddress),
                  rrtype |-> "PTR", data |-> to_text(from_text(CallName))]>>
    /\ Committed
    /\ \A j, k \in 1..Len(invoked) : invoked[j].zone = invoked[k].zone => j = k
    /\ \A k \in 1..Len(invoked) :
          \A i \in 1..Len(invoked[k].updates) :
             invoked[k].updates[i].action = "delete"
    /\ result = "returned" => \A i \in 1..Len(ctx) :
          \E k \in 1..Len(invoked) : invoked[k].zone = ctx[i].zone

\* a delete of a binding which DNS held: both records are gone
C13_Witness ==
    /\ Deleted /\ Truthy(CallName) /\ result = "returned"
    /\ Len(calls) = 2 /\ Len(invoked) = 2
    /\ Binding(CallAddress, from_text(CallName)) \subseteq before
    /\ dns = before \ Binding(CallAddress, from_text(CallName))

\* ------------------------------------------------------ query routing (C14)
\* C14: a query goes to the updater of the enclosing registered zone of its
\* name when that updater has a query method, and to the fallback resolver
\* exactly when the name has no enclosing registered zone or the updater of
\* the zone has no query method.
C14_QueryRouting ==
    \A i \in 1..Len(queries) :
        LET zonename == Nearest(queries[i].dnsname) IN
        /\ queries[i].route \in {"updater", "resolver"}
        /\ queries[i].route = "updater"
              <=> (zonename # NotFound /\ zones[zonename] = "DDNSUpdater")
        /\ queries[i].route = "resolver"
              <=> (zonename = NotFound \/ zones[zonename] # "DDNSUpdater")

\* a reconciliation whose forward query went to the updater of the zone of
\* the name and whose PTR query, for a name in no registered zone, went to
\* the fallback resolver
C14_Witness ==
    /\ Updated /\ Len(queries) = 2
    /\ queries[1].route = "updater" /\ Enclosing(queries[1].dnsname) # {}
    /\ queries[2].route = "resolver" /\ Enclosing(queries[2].dnsname) = {}

\* ----------------------------------------------- the forward record type (C15)
\* the name lies under the zone (or is the zone)
Under(dnsname, zonename) ==
    \E k \in 0..Len(dnsname) : SubSeq(dnsname, k + 1, Len(dnsname)) = zonename

\* C15: in update_dns and delete_dns the forward type is AAAA iff the
\* reverse name of the address lies under ip6.arpa., else A, and this one
\* type is the type of every forward query, delete and add of the call; the
\* other queries and calls, those on reverse names, are of type PTR.
C15_FamilySelection ==
    (Updated \/ Deleted) /\ AddrParses(CallAddress) =>
        LET selected == IF Under(from_address(CallAddress), IP6_ARPA)
                        THEN "AAAA" ELSE "A"
        IN  /\ \A i \in 1..Len(queries) :
                  IF Under(queries[i].dnsname, <<"arpa">>)
                  THEN queries[i].rrtype = "PTR"
                  ELSE queries[i].rrtype = selected
            /\ \A i \in 1..Len(calls) :
                  IF Under(calls[i].dnsname, <<"arpa">>)
                  THEN calls[i].rrtype = "PTR"
                  ELSE calls[i].rrtype = selected
            /\ Updated /\ Truthy(CallName) /\ queries # <<>>
                  => queries[1].rrtype = selected

\* a reconciliation for an IPv6 address which asked for the AAAA records of
\* the name, deleted a stale one and added the new one
C15_Witness ==
    /\ Updated /\ Truthy(CallName) /\ result = "returned"
    /\ Under(from_address(CallAddress), IP6_ARPA)
    /\ queries[1].rrtype = "AAAA"
    /\ \E i \in 1..Len(calls) :
          calls[i].action = "delete" /\ calls[i].rrtype = "AAAA"
    /\ \E i \in 1..Len(calls) :
          calls[i].action = "add" /\ calls[i].rrtype = "AAAA"

\* ------------------------------------------- what a reconciliation leaves
\* the lists of a batch applied to the records, zone after zone
RECURSIVE ApplyBatch(_, _)
ApplyBatch(records, c) ==
    IF c = <<>> THEN records
    ELSE ApplyBatch(ApplyAll(records, Head(c).zone, Head(c).updates), Tail(c))

\* the names the call asked about or made a call for
Touched ==
    {queries[i].dnsname : i \in 1..Len(queries)}
        \cup {calls[i].dnsname : i \in 1..Len(calls)}

\* update_dns(address, name) with name present returned, every name it
\* touched lies in a registered zone and no updater failed
Reconciled ==
    /\ Updated /\ Truthy(CallName) /\ result = "returned"
    /\ \A n \in Touched : Enclosing(n) # {}
    /\ \A k \in 1..Len(invoked) : invoked[k].outcome \in {"NOERROR", "PRINTED"}

\* the name has exactly the forward record name->address of the selected
\* type and reverse(address) exactly the PTR record ->name
Settled(records) ==
    LET rrname == from_text(CallName)
        revname == from_address(CallAddress)
    IN  /\ Answer(records, rrname, TypeOf(CallAddress))
              = {RR(rrname, TypeOf(CallAddress), inet_aton(CallAddress))}
        /\ Answer(records, revname, "PTR") = {RR(revname, "PTR", rrname)}

\* the address text is the spelling in which a DNS answer shows the address
SameSpelling == inet_ntoa(inet_aton(CallAddress)) = CallAddress

\* C16: for every initial DNS and every (address, name) with name present,
\* when all touched names lie in registered zones and every zone commit
\* succeeds, the batch of update_dns(address, name) applied in recorded
\* order leaves name with exactly one forward record of the selected type,
\* with data address, and reverse(address) with exactly one PTR record,
\* with target name.
C16_Convergence ==
    Reconciled =>
        /\ Settled(ApplyBatch(before, ctx))
        /\ pc = "served" => dns = ApplyBatch(before, ctx)

\* the same for an address given in the spelling of DNS answers
C16_SameSpelling ==
    Reconciled /\ SameSpelling =>
        /\ Settled(ApplyBatch(before, ctx))
        /\ pc = "served" => dns = ApplyBatch(before, ctx)

\* the call deletes the forward record name->address or the PTR record
\* reverse(address)->name
DeletesDesired(call) ==
    /\ call.action = "delete"
    /\ \/ /\ call.dnsname = from_text(CallName)
          /\ call.rrtype = TypeOf(CallAddress)
          /\ call.data = None \/ inet_aton(call.data) = inet_aton(CallAddress)
       \/ /\ call.dnsname = from_address(CallAddress)
          /\ call.rrtype = "PTR"
          /\ call.data = None \/ from_text(call.data) = from_text(CallName)

\* C17: for every query result, the batch built by update_dns(address,
\* name) with name present has no delete of the forward record (name, type,
\* address) and no delete of the PTR record reverse(address)->name, also
\* when a queried record denotes the address of the input in another
\* spelling.
C17_KeepsWhatItWants ==
    Updated /\ Truthy(CallName) =>
        \A i \in 1..Len(calls) : ~DeletesDesired(calls[i])

\* the same for an address given in the spelling of DNS answers
C17_SameSpelling ==
    Updated /\ Truthy(CallName) /\ SameSpelling =>
        \A i \in 1..Len(calls) : ~DeletesDesired(calls[i])

\* every update_dns(address, name) made in this state, against the records
\* DNS holds now, makes no call on the batch and invokes no updater
SecondCallIdle ==
    \A fo \in Orders(ForwardAnswer(CallAddress, CallName)),
       po \in Orders(ReverseAnswer(CallAddress)) :
        LET second == update_dns(CallAddress, CallName, fo, po, "none", Quiet)
        IN  second.calls = <<>> /\ second.invoked = <<>>

\* C18: after the batch of update_dns(address, name) has been applied to
\* DNS (all names in registered zones, commits succeeding), a second
\* update_dns(address, name) against the resulting DNS makes no call and
\* invokes no updater; and when DNS already holds exactly name->address and
\* reverse(address)->name, the first call makes none.
C18_Idempotent ==
    /\ Reconciled /\ pc = "served" /\ dns = ApplyBatch(before, ctx)
          => SecondCallIdle
    /\ (/\ Updated /\ Truthy(CallName) /\ result = "returned"
        /\ before = Binding(CallAddress, from_text(CallName)))
          => calls = <<>> /\ invoked = <<>>

\* the same for an address given in the spelling of DNS answers
C18_SameSpelling ==
    /\ Reconciled /\ pc = "served" /\ dns = ApplyBatch(before, ctx)
          /\ SameSpelling
          => SecondCallIdle
    /\ (/\ Updated /\ Truthy(CallName) /\ result = "returned"
        /\ before = Binding(CallAddress, from_text(CallName))
        /\ SameSpelling)
          => calls = <<>> /\ invoked = <<>>

\* ------------------------------------------ the invocations of a call (C19)
\* C19: in a call each updater invocation is for a zone key of the batch
\* that call began, with the list of that key, which is not empty and holds
\* calls of this call only; no zone is invoked twice, and none at all when
\* no call resolved to a registered zone.
C19_OncePerZone ==
    /\ \A k \in 1..Len(invoked) :
          /\ invoked[k].zone \in DOMAIN zones
          /\ invoked[k].updates # <<>>
          /\ \E i \in 1..Len(ctx) :
                ctx[i].zone = invoked[k].zone
                    /\ ctx[i].updates = invoked[k].updates
    /\ \A j, k \in 1..Len(invoked) : invoked[j].zone = invoked[k].zone => j = k
    /\ \A i, j \in 1..Len(ctx) : ctx[i].zone = ctx[j].zone => i = j
    /\ SumLen(ctx) =
          Cardinality({k \in 1..Len(calls) : Enclosing(calls[k].dnsname) # {}})
    /\ (\A k \in 1..Len(calls) : Enclosing(calls[k].dnsname) = {})
          => invoked = <<>>

\* a reconciliation whose calls, some of them for names in no registered
\* zone, left two zone keys, each handed once to its updater
C19_Witness ==
    /\ Updated /\ result = "returned"
    /\ Len(invoked) = 2 /\ invoked[1].zone # invoked[2].zone
    /\ Len(calls) > Len(invoked[1].updates) + Len(invoked[2].updates)

\* a reconciliation all of whose calls were for names in no registered zone:
\* it returned without an invocation
C19_WitnessNoZone ==
    /\ Updated /\ result = "returned"
    /\ Len(calls) = 2 /\ ctx = <<>> /\ invoked = <<>>

\* ------------------------------------------------------ request gating (C20)
\* the request is not a POST, or its signature is not the HMAC of the body
\* while an api key is configured, or its model is not ipaddress
Refused ==
    \/ request.method # "POST"
    \/ api_key /\ request.signature # "valid"
    \/ request.model # "ipaddress"

\* neither update_dns nor delete_dns was called
NothingDone ==
    /\ result = "none"
    /\ queries = <<>> /\ calls = <<>> /\ ctx = <<>> /\ invoked = <<>>
    /\ dns = before

\* C20: a webhook request which is not a POST, or whose X-Hook-Signature is
\* not the HMAC of the body while an api key is configured, or whose model
\* is not ipaddress causes no DNS query and no updater invocation; of the
\* accepted requests, the events created and updated run update_dns (which
\* asks its PTR query unless it stopped before), the event deleted runs
\* delete_dns (no query, deletes only) and any other event runs neither.
C20_RequestGating ==
    pc = "served" =>
        /\ Refused => NothingDone /\ status \in {"405", "403", "400"}
        /\ ~Refused /\ request.event \in {"created", "updated"} =>
              /\ result # "none"
              /\ result = "returned" =>
                    /\ queries # <<>>
                    /\ queries[Len(queries)].rrtype = "PTR"
                    /\ queries[Len(queries)].dnsname
                          = from_address(CallAddress)
        /\ ~Refused /\ request.event = "deleted" =>
              /\ result # "none"
              /\ queries = <<>>
              /\ \A i \in 1..Len(calls) : calls[i].action = "delete"
              /\ result = "returned" /\ Truthy(CallName) => Len(calls) = 2
        /\ ~Refused /\ request.event \notin {"created", "updated", "deleted"}
              => NothingDone /\ status = "200"

\* a POST for another model, accepted as to its signature, whose payload
\* names a binding DNS does not hold: nothing was asked or handed over
C20_Witness ==
    /\ pc = "served" /\ status = "400"
    /\ request.method = "POST" /\ request.model = "prefix"
    /\ request.event = "updated"
    /\ NothingDone
    /\ ~(Binding(CallAddress, from_text(CallName)) \subseteq dns)

====
